---- MODULE Spec2Model ----
(***************************************************************************)
(* UCT interval optimizer (UCTOptimizer.py): the interval-partition tree   *)
(* of IntervalNode and the select / expand / sample / backpropagate loop   *)
(* of UCTOptimizer.tune_params.                                            *)
(*                                                                         *)
(* Nodes live in an arena `nodes` (a sequence); a node reference is its    *)
(* index, and 0 stands for Python's None.  Numbers of the parameter domain *)
(* are held in units of 1/Unit, fine enough that every float division by   *)
(* num_chunks the run can make is exact; a domain given as Python 2 ints   *)
(* keeps Python 2's floor division.                                        *)
(***************************************************************************)
EXTENDS Integers, Sequences, FiniteSets, TLC

\* ------------------------------------------------------------------ bounds
MaxIter == 3
MaxChunks == 2

\* exploration constants tried, in tenths (0.3 is the constant of __main__)
UctCoeffs == {0, 3}

\* domains tried: <<low, high, numeric kind>>
Domains == { <<0, 12, "float">>, <<0, 5, "int">>,
             <<2, 2, "float">>, <<5, 0, "int">> }

\* what the test program can print: 'W', 'L', 'D', or nothing at all
Outcomes == {"W", "L", "D", ""}

None == 0

VARIABLES
    nodes,          \* arena of IntervalNode objects; root is nodes[1]
    pc,             \* position of tune_params
    test_params,    \* params[0] = <<name, low, high>> in units of 1/Unit
    numeric,        \* "int" or "float": Python type of the domain bounds
    iterations,     \* UCTOptimizer.iterations
    uct_coeff,      \* UCTOptimizer.uct_coeff, in tenths
    num_chunks,     \* UCTOptimizer.num_chunks
    iter,           \* loop variable of the for loop = completed iterations
    cur_node,       \* cur_node of tune_params / find_best_interval
    parent_node,    \* parent_node of tune_params
    new_child,      \* new_child of tune_params
    prop,           \* self of the active propegate_result frame
    result,         \* the record being propagated
    samples_win,    \* UCTOptimizer.samples_win
    samples_loss,   \* UCTOptimizer.samples_loss
    best_interval,  \* value returned by root.find_best_interval()
    err             \* exception that ended the run, "" if none

vars == << nodes, pc, test_params, numeric, iterations, uct_coeff, num_chunks,
           iter, cur_node, parent_node, new_child, prop, result,
           samples_win, samples_loss, best_interval, err >>

\* ------------------------------------------------------------- arithmetic
RECURSIVE Pow(_, _)
Pow(b, e) == IF e = 0 THEN 1 ELSE b * Pow(b, e - 1)

\* one domain unit, as held in the model
UnitOf(n) == Pow(n, MaxIter)

\* Python 2 "/" : floor division on ints, true division on floats
PyDiv(a, n, kind, unit) ==
    IF kind = "int" THEN ((a \div unit) \div n) * unit
    ELSE a \div n

\* math.log(v) * 10^8, for the visit counts a bounded run can reach
LnE8 == << 0, 69314718, 109861229, 138629436, 160943791, 179175947,
           194591015, 207944154, 219722458, 230258509, 239789527,
           248490665, 256494936 >>

RECURSIVE SqrtSearch(_, _, _)
SqrtSearch(n, lo, hi) ==
    IF lo >= hi THEN lo
    ELSE LET mid == (lo + hi + 1) \div 2
         IN  IF mid * mid <= n THEN SqrtSearch(n, mid, hi)
             ELSE SqrtSearch(n, lo, mid - 1)

\* floor(sqrt(n))
ISqrt(n) == SqrtSearch(n, 0, 46340)

\* ------------------------------------------------------------ IntervalNode
Slots(n) == 0 .. (n - 1)

\* IntervalNode.__init__
IntervalNode(interval, coeff, chunks) ==
    [ children   |-> [i \in Slots(chunks) |-> None],
      interval   |-> interval,
      wins       |-> 0,
      visits     |-> 0,
      samples    |-> << >>,
      parent     |-> None,
      uct_coeff  |-> coeff,
      num_chunks |-> chunks ]

\* variant: a draw scores as a win
WIN_RESULTS_DrawWins == [o \in {"W", "L", "D"} |-> IF o = "L" THEN 0 ELSE 1]

\* variant: a loss takes a win back
WIN_RESULTS_LossPenalty ==
    [o \in {"W", "L", "D"} |-> IF o = "W" THEN 1 ELSE IF o = "L" THEN -1 ELSE 0]

WIN_RESULTS == [o \in {"W", "L", "D"} |-> IF o = "W" THEN 1 ELSE 0]

\* is_root: "interval is None or parent is None"; every node is built with
\* an interval tuple, so the parent decides
is_root(t, n) == t[n].parent = None

interval_width(t, n) == t[n].interval[2] - t[n].interval[1]

chunk_width(t, n, kind, unit) ==
    PyDiv(interval_width(t, n), t[n].num_chunks, kind, unit)

\* the interval handed to the child of slot i
ChildInterval(t, n, i, kind, unit) ==
    << t[n].interval[1] + i * chunk_width(t, n, kind, unit),
       t[n].interval[1] + (i + 1) * chunk_width(t, n, kind, unit) >>

\* variant: the slot is assigned, the back-reference is not
add_child_no_parent(t, n, c, i) ==
    [t EXCEPT ![n].children[i] = c]

\* add_child: slot assignment and back-reference
add_child(t, n, c, i) ==
    [t EXCEPT ![n].children[i] = c, ![c].parent = n]

\* variant: no check for an existing child
make_child_always(t, n, i, kind, unit) ==
    LET c  == Len(t) + 1
        t1 == Append(t, IntervalNode(ChildInterval(t, n, i, kind, unit),
                                     t[n].uct_coeff, t[n].num_chunks))
    IN  [tree |-> add_child(t1, n, c, i), node |-> c]

\* make_child_for_interval: <<tree after the call, node returned>>
make_child_for_interval(t, n, i, kind, unit) ==
    IF t[n].children[i] # None
    THEN [tree |-> t, node |-> t[n].children[i]]
    ELSE LET c  == Len(t) + 1
             t1 == Append(t, IntervalNode(ChildInterval(t, n, i, kind, unit),
                                          t[n].uct_coeff, t[n].num_chunks))
             t2 == [t1 EXCEPT ![n].children[i] = c]
         IN  [tree |-> add_child(t2, n, c, i), node |-> c]

\* uct_value, times 10^4: [err, val]; val = -1 stands for None
uct_value(t, n) ==
    IF is_root(t, n) THEN [err |-> "", val |-> -1]
    ELSE IF t[n].visits = 0 THEN [err |-> "ZeroDivisionError", val |-> 0]
    ELSE IF t[t[n].parent].visits = 0 THEN [err |-> "ValueError: math domain error", val |-> 0]
    ELSE [err |-> "",
          val |-> (t[n].wins * 10000) \div t[n].visits
                  + (t[n].uct_coeff
                     * ISqrt(LnE8[t[t[n].parent].visits] \div t[n].visits))
                    \div 10]

\* first slot of s whose key is maximal (Python's max keeps the first)
FirstMax(s, key) ==
    CHOOSE i \in s :
        /\ \A j \in s : key[j] <= key[i]
        /\ \A j \in s : j < i => key[j] < key[i]

\* variant: among equal keys the last child is kept
RECURSIVE MaxByUct_LastWins(_, _, _, _, _)
MaxByUct_LastWins(t, ch, i, best, bestval) ==
    IF i \notin DOMAIN ch THEN [err |-> "", node |-> best]
    ELSE LET u == uct_value(t, ch[i])
         IN  IF u.err # "" THEN [err |-> u.err, node |-> None]
             ELSE IF best = None \/ u.val >= bestval
                  THEN MaxByUct_LastWins(t, ch, i + 1, ch[i], u.val)
                  ELSE MaxByUct_LastWins(t, ch, i + 1, best, bestval)

\* max(children, key=uct_value), scanning from slot i with the best child
\* so far: a later child replaces it only with a strictly larger key
RECURSIVE MaxByUct(_, _, _, _, _)
MaxByUct(t, ch, i, best, bestval) ==
    IF i \notin DOMAIN ch THEN [err |-> "", node |-> best]
    ELSE LET u == uct_value(t, ch[i])
         IN  IF u.err # "" THEN [err |-> u.err, node |-> None]
             ELSE IF best = None \/ u.val > bestval
                  THEN MaxByUct(t, ch, i + 1, ch[i], u.val)
                  ELSE MaxByUct(t, ch, i + 1, best, bestval)

\* variant: "no selection" only while no slot at all is filled
best_child_any_filled(t, n) ==
    LET ch     == t[n].children
        filled == {i \in DOMAIN ch : ch[i] # None}
    IN  IF filled = {} THEN [err |-> "", node |-> None]
        ELSE IF \E i \in filled : uct_value(t, ch[i]).err # ""
             THEN [err |-> "ZeroDivisionError", node |-> None]
        ELSE [err  |-> "",
              node |-> ch[FirstMax(filled,
                           [i \in filled |-> uct_value(t, ch[i]).val])]]

\* best_child: [err, node]
best_child(t, n) ==
    LET ch == t[n].children
        sl == DOMAIN ch
    IN  IF sl = {} THEN [err |-> "", node |-> None]
        ELSE IF \E i \in sl : ch[i] = None THEN [err |-> "", node |-> None]
        ELSE MaxByUct(t, ch, 0, None, -1)

\* variant: the key is wins
most_won_child(t, n) ==
    LET ch == t[n].children
        sl == {i \in DOMAIN ch : ch[i] # None}
    IN  IF sl = {} THEN None
        ELSE LET key == [i \in sl |-> t[ch[i]].wins]
             IN  ch[FirstMax(sl, key)]

\* most_visited_child
most_visited_child(t, n) ==
    LET ch == t[n].children
        sl == {i \in DOMAIN ch : ch[i] # None}
    IN  IF sl = {} THEN None
        ELSE LET key == [i \in sl |-> t[ch[i]].visits]
             IN  ch[FirstMax(sl, key)]

has_children(t, n) == Cardinality(DOMAIN t[n].children) > 0

\* ------------------------------------------------------------------- Init
Init ==
    /\ num_chunks \in 1 .. MaxChunks
    /\ iterations \in 0 .. MaxIter
    /\ uct_coeff \in UctCoeffs
    /\ \E d \in Domains :
          /\ numeric = d[3]
          /\ test_params = << "k", d[1] * UnitOf(num_chunks),
                                   d[2] * UnitOf(num_chunks) >>
    /\ nodes = << >>
    /\ pc = "start"
    /\ iter = 0
    /\ cur_node = None
    /\ parent_node = None
    /\ new_child = None
    /\ prop = None
    /\ result = << >>
    /\ samples_win = << >>
    /\ samples_loss = << >>
    /\ best_interval = << >>
    /\ err = ""

Unit == UnitOf(num_chunks)

\* ---------------------------------------------------------------- actions
\* tune_params, up to the loop: build the root
TuneParams ==
    /\ pc = "start"
    /\ nodes' = << IntervalNode(<< test_params[2], test_params[3] >>,
                                uct_coeff, num_chunks) >>
    /\ cur_node' = 1
    /\ parent_node' = 1
    /\ pc' = "loop"
    /\ UNCHANGED << test_params, numeric, iterations, uct_coeff, num_chunks,
                    iter, new_child, prop, result, samples_win, samples_loss,
                    best_interval, err >>

\* variant: the loop runs while iter <= iterations
LoopHead_OneMore ==
    /\ pc = "loop"
    /\ cur_node' = 1
    /\ IF iter <= iterations
       THEN /\ parent_node' = 1
            /\ pc' = "descend"
       ELSE /\ parent_node' = parent_node
            /\ pc' = "extract"
    /\ UNCHANGED << nodes, test_params, numeric, iterations, uct_coeff,
                    num_chunks, iter, new_child, prop, result, samples_win,
                    samples_loss, best_interval, err >>

\* head of the for loop: next iteration, or leave the loop
LoopHead ==
    /\ pc = "loop"
    /\ cur_node' = 1
    /\ IF iter < iterations
       THEN /\ parent_node' = 1
            /\ pc' = "descend"
       ELSE /\ parent_node' = parent_node
            /\ pc' = "extract"
    /\ UNCHANGED << nodes, test_params, numeric, iterations, uct_coeff,
                    num_chunks, iter, new_child, prop, result, samples_win,
                    samples_loss, best_interval, err >>

\* one pass of "while cur_node is not None"
Descend ==
    /\ pc = "descend"
    /\ cur_node # None
    /\ LET b == best_child(nodes, cur_node)
       IN  /\ parent_node' = cur_node
           /\ IF b.err # ""
              THEN /\ err' = b.err
                   /\ pc' = "crashed"
                   /\ cur_node' = cur_node
              ELSE /\ err' = err
                   /\ pc' = pc
                   /\ cur_node' = b.node
    /\ UNCHANGED << nodes, test_params, numeric, iterations, uct_coeff,
                    num_chunks, iter, new_child, prop, result, samples_win,
                    samples_loss, best_interval >>

\* variant: the count guard is visits >= num_chunks
Inflate_GuardAtN ==
    /\ pc = "descend"
    /\ cur_node = None
    /\ LET n         == parent_node
           unvisited == {i \in DOMAIN nodes[n].children :
                            nodes[n].children[i] = None}
       IN  IF nodes[n].visits >= nodes[n].num_chunks
           THEN /\ new_child' = None
                /\ pc' = "sample"
                /\ UNCHANGED << nodes, err >>
           ELSE IF unvisited = {}
           THEN /\ err' = "ValueError: sample larger than population"
                /\ pc' = "crashed"
                /\ UNCHANGED << nodes, new_child >>
           ELSE \E rand_chunk_index \in unvisited :
                  LET r == make_child_for_interval(nodes, n, rand_chunk_index,
                                                   numeric, Unit)
                  IN  /\ nodes' = r.tree
                      /\ new_child' = r.node
                      /\ pc' = "sample"
                      /\ err' = err
    /\ UNCHANGED << test_params, numeric, iterations, uct_coeff, num_chunks,
                    iter, cur_node, parent_node, prop, result, samples_win,
                    samples_loss, best_interval >>

\* has_child_for_interval
has_child_for_interval(t, n, i) == t[n].children[i] = None

\* variant: the slot is drawn from all slots, as random_subinterval does
inflate_any_slot(t, n, kind, unit) ==
    IF t[n].visits > t[n].num_chunks
    THEN {[tree |-> t, node |-> None, err |-> ""]}
    ELSE {[tree |-> make_child_for_interval(t, n, i, kind, unit).tree,
           node |-> make_child_for_interval(t, n, i, kind, unit).node,
           err  |-> ""] : i \in DOMAIN t[n].children}

\* inflate_random_child: the possible outcomes [tree, node returned, err]
inflate_random_child(t, n, kind, unit) ==
    LET unvisited == {i \in DOMAIN t[n].children : t[n].children[i] = None}
    IN  IF t[n].visits > t[n].num_chunks
        THEN {[tree |-> t, node |-> None, err |-> ""]}
        ELSE IF unvisited = {}
        THEN {[tree |-> t, node |-> None,
               err  |-> "ValueError: sample larger than population"]}
        ELSE {[tree |-> make_child_for_interval(t, n, rand_chunk_index,
                                                kind, unit).tree,
               node |-> make_child_for_interval(t, n, rand_chunk_index,
                                                kind, unit).node,
               err  |-> ""] : rand_chunk_index \in unvisited}

\* new_child = parent_node.inflate_random_child()
Inflate ==
    /\ pc = "descend"
    /\ cur_node = None
    /\ \E r \in inflate_random_child(nodes, parent_node, numeric, Unit) :
          /\ nodes' = r.tree
          /\ IF r.err # ""
             THEN /\ err' = r.err
                  /\ pc' = "crashed"
                  /\ new_child' = new_child
             ELSE /\ err' = err
                  /\ pc' = "sample"
                  /\ new_child' = r.node
    /\ UNCHANGED << test_params, numeric, iterations, uct_coeff, num_chunks,
                    iter, cur_node, parent_node, prop, result, samples_win,
                    samples_loss, best_interval >>

\* the value uniform(a, b) is tried with: a + (b - a) * random() at random() = 0
SamplePoints(interval) == {interval[1]}

\* UCTOptimizer.sample, up to the call of propegate_result
Sample ==
    /\ pc = "sample"
    /\ IF new_child = None
       THEN /\ err' = "AttributeError"
            /\ pc' = "crashed"
            /\ UNCHANGED << prop, result, samples_win, samples_loss >>
       ELSE \E p \in SamplePoints(nodes[new_child].interval),
               win_loss \in Outcomes :
              /\ IF win_loss = "W"
                 THEN /\ samples_win' = Append(samples_win, p)
                      /\ samples_loss' = samples_loss
                 ELSE /\ samples_loss' = Append(samples_loss, p)
                      /\ samples_win' = samples_win
              /\ result' = << test_params[1], p, win_loss >>
              /\ prop' = new_child
              /\ pc' = "propagate"
              /\ err' = err
    /\ UNCHANGED << nodes, test_params, numeric, iterations, uct_coeff,
                    num_chunks, iter, cur_node, parent_node, new_child,
                    best_interval >>

\* variant: the result is not handed to the parent
Propegate_LeafOnly ==
    /\ pc = "propagate"
    /\ IF result[3] \notin DOMAIN WIN_RESULTS
       THEN /\ nodes' = [nodes EXCEPT ![prop].visits = @ + 1]
            /\ err' = "KeyError"
            /\ pc' = "crashed"
            /\ UNCHANGED << prop, iter >>
       ELSE /\ nodes' = [nodes EXCEPT ![prop].visits = @ + 1,
                                      ![prop].wins = @ + WIN_RESULTS[result[3]],
                                      ![prop].samples = Append(@, result)]
            /\ err' = err
            /\ IF FALSE
               THEN /\ prop' = nodes[prop].parent
                    /\ pc' = pc
                    /\ iter' = iter
               ELSE /\ prop' = None
                    /\ pc' = "loop"
                    /\ iter' = iter + 1
    /\ UNCHANGED << test_params, numeric, iterations, uct_coeff, num_chunks,
                    cur_node, parent_node, new_child, result, samples_win,
                    samples_loss, best_interval >>

\* one frame of propegate_result; the last frame ends the iteration
Propegate ==
    /\ pc = "propagate"
    /\ IF result[3] \notin DOMAIN WIN_RESULTS
       THEN /\ nodes' = [nodes EXCEPT ![prop].visits = @ + 1]
            /\ err' = "KeyError"
            /\ pc' = "crashed"
            /\ UNCHANGED << prop, iter >>
       ELSE /\ nodes' = [nodes EXCEPT ![prop].visits = @ + 1,
                                      ![prop].wins = @ + WIN_RESULTS[result[3]],
                                      ![prop].samples = Append(@, result)]
            /\ err' = err
            /\ IF nodes[prop].parent # None
               THEN /\ prop' = nodes[prop].parent
                    /\ pc' = pc
                    /\ iter' = iter
               ELSE /\ prop' = None
                    /\ pc' = "loop"
                    /\ iter' = iter + 1
    /\ UNCHANGED << test_params, numeric, iterations, uct_coeff, num_chunks,
                    cur_node, parent_node, new_child, result, samples_win,
                    samples_loss, best_interval >>

\* one pass of the loop of find_best_interval, or its return
FindBestInterval ==
    /\ pc = "extract"
    /\ LET m == most_visited_child(nodes, cur_node)
       IN  IF has_children(nodes, cur_node) /\ m # None
           THEN /\ cur_node' = m
                /\ UNCHANGED << pc, best_interval >>
           ELSE /\ best_interval' = << test_params[1],
                                       nodes[cur_node].interval[1],
                                       nodes[cur_node].interval[2] >>
                /\ pc' = "done"
                /\ cur_node' = cur_node
    /\ UNCHANGED << nodes, test_params, numeric, iterations, uct_coeff,
                    num_chunks, iter, parent_node, new_child, prop, result,
                    samples_win, samples_loss, err >>

Next ==
    \/ TuneParams
    \/ LoopHead
    \/ Descend
    \/ Inflate
    \/ Sample
    \/ Propegate
    \/ FindBestInterval

Spec == Init /\ [][Next]_vars

\* the interpreter runs the program to its end
FairSpec == Spec /\ WF_vars(Next)

\* ================================================================ claims
MaterializedSlots(t, n) == {i \in DOMAIN t[n].children : t[n].children[i] # None}

Children(t, n) == {t[n].children[i] : i \in MaterializedSlots(t, n)}

\* C1: a frame of propegate_result with outcome W, L or D adds exactly 1 to
\* the visits of its node, adds 1 to its wins for W and 0 for L and D,
\* touches no other node, and hands the same record to the parent; only the
\* frame of the root ends the call.  So the node and each of its ancestors
\* up to the root are incremented exactly once.
C1_PropegateIncrements ==
    [][ (pc = "propagate" /\ result[3] \in {"W", "L", "D"}) =>
          /\ nodes'[prop].visits = nodes[prop].visits + 1
          /\ nodes'[prop].wins =
                nodes[prop].wins + (IF result[3] = "W" THEN 1 ELSE 0)
          /\ DOMAIN nodes' = DOMAIN nodes
          /\ \A m \in DOMAIN nodes : m # prop => nodes'[m] = nodes[m]
          /\ IF nodes[prop].parent # None
             THEN /\ pc' = "propagate"
                  /\ prop' = nodes[prop].parent
                  /\ result' = result
             ELSE pc' = "loop" ]_vars

\* a draw has been propagated from a node two levels below the root up to
\* the root, after a win was propagated earlier
C1_Witness ==
    /\ pc = "loop"
    /\ new_child # None
    /\ nodes[new_child].parent \notin {None, 1}
    /\ result[3] = "D"
    /\ nodes[new_child].visits = 1
    /\ nodes[new_child].wins = 0
    /\ nodes[1].wins >= 1
    /\ nodes[1].visits = iter

\* C2: in every reachable state, also between two frames of a
\* backpropagation and after a run has died, every node has
\* 0 <= wins <= visits.
C2_WinsWithinVisits ==
    \A n \in DOMAIN nodes :
        /\ 0 <= nodes[n].wins
        /\ nodes[n].wins <= nodes[n].visits

\* inside a backpropagation of a win: the leaf is updated, its parent is not
C2_Witness ==
    /\ pc = "propagate"
    /\ prop # new_child
    /\ result[3] = "W"
    /\ nodes[new_child].wins = 1
    /\ nodes[new_child].visits = 1
    /\ nodes[prop].visits >= 1

AllScored(t, n) ==
    /\ t[n].visits >= 1
    /\ \A c \in Children(t, n) : t[c].visits >= 1

C4_MakeChildIdempotent ==
    \A n \in DOMAIN nodes :
        \A i \in DOMAIN nodes[n].children :
            LET r1 == make_child_for_interval(nodes, n, i, numeric, Unit)
                r2 == make_child_for_interval(r1.tree, n, i, numeric, Unit)
            IN  /\ r2.node = r1.node
                /\ r2.tree = r1.tree
                /\ Len(r2.tree) = Len(r1.tree)
                /\ MaterializedSlots(r2.tree, n) = MaterializedSlots(r1.tree, n)
                /\ r1.tree[n].children[i] = r1.node

\* the driver has just expanded a slot; a sibling with statistics exists
C4_Witness ==
    /\ pc = "sample"
    /\ new_child # None
    /\ \E i \in MaterializedSlots(nodes, parent_node) :
          /\ nodes[parent_node].children[i] # new_child
          /\ nodes[nodes[parent_node].children[i]].visits >= 1
          /\ make_child_for_interval(nodes, parent_node, i, numeric, Unit).tree
                = nodes
    /\ \E i \in MaterializedSlots(nodes, parent_node) :
          nodes[parent_node].children[i] = new_child

\* C5 as stated: the child of slot i of a node (lo, hi) with N slots has the
\* interval (lo + i*(hi-lo)/N, lo + (i+1)*(hi-lo)/N), for int and float
\* domains alike; then slot 0 starts at lo, slot N-1 ends at hi and
\* neighbouring slots share their bound.
C5_ChildrenTile ==
    \A n \in DOMAIN nodes :
        \A i \in MaterializedSlots(nodes, n) :
            LET c  == nodes[nodes[n].children[i]].interval
                lo == nodes[n].interval[1]
                hi == nodes[n].interval[2]
                N  == nodes[n].num_chunks
            IN  /\ N * (c[1] - lo) = i * (hi - lo)
                /\ N * (c[2] - lo) = (i + 1) * (hi - lo)

\* number of nodes between n and the root
RECURSIVE Depth(_, _)
Depth(t, n) == IF t[n].parent = None THEN 0 ELSE 1 + Depth(t, t[n].parent)

RECURSIVE SumVisits(_, _)
SumVisits(t, S) ==
    IF S = {} THEN 0
    ELSE LET c == CHOOSE x \in S : TRUE
         IN  t[c].visits + SumVisits(t, S \ {c})

RECURSIVE SumWins(_, _)
SumWins(t, S) ==
    IF S = {} THEN 0
    ELSE LET c == CHOOSE x \in S : TRUE
         IN  t[c].wins + SumWins(t, S \ {c})

Full(t, n) == MaterializedSlots(t, n) = DOMAIN t[n].children

\* C6: whenever the descent scores the children of a node (all its slots
\* are filled), the node and each of its children have visits >= 1, and no
\* run dies of the division or of the logarithm in uct_value.
C6_ScoredAfterBackprop ==
    /\ (pc = "descend" /\ cur_node # None /\ Full(nodes, cur_node)) =>
          /\ nodes[cur_node].visits >= 1
          /\ \A c \in Children(nodes, cur_node) : nodes[c].visits >= 1
          /\ best_child(nodes, cur_node).err = ""
    /\ err \notin {"ZeroDivisionError", "ValueError: math domain error"}

\* the descent scores the children of the root, one of them sampled twice
C6_Witness ==
    /\ pc = "descend"
    /\ cur_node = 1
    /\ Full(nodes, 1)
    /\ \E c \in Children(nodes, 1) : nodes[c].visits >= 2

\* win of the sample taken at the creation of n (the root has none)
OwnWin(t, n) ==
    IF t[n].parent = None THEN 0
    ELSE IF t[n].samples[1][3] = "W" THEN 1 ELSE 0

\* C7: at the end of every iteration the visits of the children of a node
\* add up to the node's visits (root) or to its visits minus 1 (other
\* nodes), and their wins to the node's wins minus the win of its own
\* first sample.
C7_VisitConservation ==
    (pc \in {"loop", "extract", "done"}) =>
        \A n \in DOMAIN nodes :
            /\ SumVisits(nodes, Children(nodes, n)) =
                  nodes[n].visits - (IF n = 1 THEN 0 ELSE 1)
            /\ SumWins(nodes, Children(nodes, n)) =
                  nodes[n].wins - OwnWin(nodes, n)

\* three iterations done, a node below the root has a child, and the
\* outcomes were a win, a loss and a draw
C7_Witness ==
    /\ pc = "loop"
    /\ iter = 3
    /\ \E n \in DOMAIN nodes : n # 1 /\ Children(nodes, n) # {}
    /\ nodes[1].wins = 1
    /\ \E j \in 1 .. 3 : nodes[1].samples[j][3] = "D"
    /\ \E j \in 1 .. 3 : nodes[1].samples[j][3] = "L"

\* C8: the loop ends after exactly `iterations` iterations; after k
\* completed iterations the tree has k nodes besides the root, the root has
\* k visits and no node is deeper than k; inside an iteration exactly one
\* node is added.
C8_OneNodePerIteration ==
    /\ iter <= iterations
    /\ (pc \in {"extract", "done"}) => iter = iterations
    /\ (pc \in {"loop", "extract", "done"}) =>
          /\ Len(nodes) = iter + 1
          /\ nodes[1].visits = iter
          /\ \A n \in DOMAIN nodes : Depth(nodes, n) <= iter
    /\ (pc = "descend") => Len(nodes) = iter + 1
    /\ (pc = "propagate") => Len(nodes) = iter + 2

\* a run of three iterations has returned; its tree is a chain of depth 3
C8_Witness ==
    /\ pc = "done"
    /\ iterations = 3
    /\ \E n \in DOMAIN nodes : Depth(nodes, n) = 3

\* C9: in each of the first N iterations the expansion point is the root
\* and a new node fills an empty root slot, so that after k <= N iterations
\* k root slots are filled, each child with visits = 1; in iteration N + 1
\* best_child of the root returns a child and the new node is created in a
\* slot of that child.
C9_RootFilledFirst ==
    /\ (iter < num_chunks /\ pc = "descend" /\ cur_node = None) =>
          parent_node = 1
    /\ (iter < num_chunks /\ pc \in {"sample", "propagate"}) =>
          /\ new_child = Len(nodes)
          /\ nodes[new_child].parent = 1
    /\ (iter <= num_chunks /\ pc = "loop") =>
          /\ Cardinality(MaterializedSlots(nodes, 1)) = iter
          /\ Len(nodes) = iter + 1
          /\ \A c \in Children(nodes, 1) : nodes[c].visits = 1
    /\ (iter = num_chunks /\ pc = "sample") =>
          LET b == best_child(nodes, 1)
          IN  /\ b.err = ""
              /\ b.node # None
              /\ new_child = Len(nodes)
              /\ nodes[new_child].parent = b.node
    /\ (iter <= num_chunks /\ pc = "crashed") => err = "KeyError"

\* iteration N + 1 with two slots: the child of slot 1 won, the child of
\* slot 0 lost, and the new node hangs below the child of slot 1
C9_Witness ==
    /\ num_chunks = 2
    /\ iter = 2
    /\ pc = "sample"
    /\ new_child # None
    /\ nodes[new_child].parent = nodes[1].children[1]
    /\ nodes[nodes[1].children[1]].wins = 1

\* node find_best_interval ends on when started at n
RECURSIVE FollowMostVisited(_, _)
FollowMostVisited(t, n) ==
    IF has_children(t, n) /\ most_visited_child(t, n) # None
    THEN FollowMostVisited(t, most_visited_child(t, n))
    ELSE n

Between(x, a, b) == (a <= x /\ x <= b) \/ (b <= x /\ x <= a)

\* C10 as stated: the interval returned after a run is the interval of the
\* node without materialized children that following most_visited_child
\* from the root ends on, and it lies inside the input domain.
C10_BestIntervalInDomain ==
    (pc = "done") =>
        LET leaf == FollowMostVisited(nodes, 1)
        IN  /\ Children(nodes, leaf) = {}
            /\ best_interval = << test_params[1], nodes[leaf].interval[1],
                                  nodes[leaf].interval[2] >>
            /\ Between(best_interval[2], test_params[2], test_params[3])
            /\ Between(best_interval[3], test_params[2], test_params[3])

\* the part of C10 that holds: the walk ends, on the node named above
C10_BestIntervalIsLeaf ==
    (pc = "done") =>
        LET leaf == FollowMostVisited(nodes, 1)
        IN  /\ Children(nodes, leaf) = {}
            /\ cur_node = leaf
            /\ best_interval = << test_params[1], nodes[leaf].interval[1],
                                  nodes[leaf].interval[2] >>

\* every run ends: it returns or dies of an exception
Terminates == <>(pc \in {"done", "crashed"})

\* C11 as stated: whatever the evaluator prints, also nothing at all or a
\* string outside W, L, D, the output is used as the outcome and no run dies
\* of it: the backpropagation reaches the root and the loop goes on.
C11_EvaluatorNeverCrashes ==
    /\ err # "KeyError"
    /\ (pc = "crashed") => (result = << >> \/ result[3] \in {"W", "L", "D"})

\* C12 as stated: a run with a non-positive iteration count or a zero-width
\* or inverted domain is rejected before the loop: no node is expanded, no
\* sample is taken and no interval is returned.
C12_ConfigRejected ==
    (iterations <= 0 \/ num_chunks <= 0 \/ test_params[2] >= test_params[3]) =>
        /\ Len(nodes) <= 1
        /\ samples_win = << >>
        /\ samples_loss = << >>
        /\ best_interval = << >>

\* the child of n that was created first
FirstExpanded(t, n) ==
    CHOOSE c \in Children(t, n) : \A d \in Children(t, n) : c <= d

\* the child of n in its lowest materialized slot
LowestSlotChild(t, n) ==
    t[n].children[CHOOSE i \in MaterializedSlots(t, n) :
                     \A j \in MaterializedSlots(t, n) : i <= j]

\* n and its ancestors
RECURSIVE PathToRoot(_, _)
PathToRoot(t, n) ==
    IF t[n].parent = None THEN {n} ELSE {n} \cup PathToRoot(t, t[n].parent)

\* C13 as stated: with an evaluator that always reports a win, once every
\* root slot is filled and a selection was made, the most-visited child of
\* each node on the returned path is the child of that node that was
\* expanded first.
C13_FirstExpandedMostVisited ==
    (pc = "done" /\ samples_loss = << >> /\ iterations > num_chunks) =>
        \A n \in PathToRoot(nodes, cur_node) :
            Children(nodes, n) # {} =>
                most_visited_child(nodes, n) = FirstExpanded(nodes, n)

\* C13 amended: with an evaluator that always reports a win, at the end of
\* every iteration the most-visited child of every node that has children
\* is the child in its lowest materialized slot (slot 0 once the node is
\* full), whichever child was expanded first; the returned interval is the
\* one reached through these children.
C13_LowestSlotMostVisited ==
    (pc \in {"loop", "extract", "done"} /\ samples_loss = << >>) =>
        /\ \A n \in DOMAIN nodes :
              Children(nodes, n) # {} =>
                  most_visited_child(nodes, n) = LowestSlotChild(nodes, n)
        /\ (pc = "done") =>
              \A n \in PathToRoot(nodes, cur_node) :
                  n # 1 => n = LowestSlotChild(nodes, nodes[n].parent)

\* three wins with two slots and C = 0.3: slot 1 was expanded first, the
\* returned interval lies below the child of slot 0
C13_Witness ==
    /\ pc = "done"
    /\ samples_loss = << >>
    /\ iterations = 3
    /\ num_chunks = 2
    /\ uct_coeff = 3
    /\ nodes[1].children[1] = 2
    /\ nodes[cur_node].parent = nodes[1].children[0]

\* C14: on every node, whatever inflate_random_child returns as a node is
\* a new node with visits = 0 in a slot that was empty before the call, and
\* the rest of the tree is as before; on a node without an empty slot it
\* returns None or raises, never an existing child.
C14_InflateOnlyEmptySlots ==
    \A n \in DOMAIN nodes :
        \A r \in inflate_random_child(nodes, n, numeric, Unit) :
            /\ (r.node # None) =>
                  /\ r.err = ""
                  /\ r.node \notin DOMAIN nodes
                  /\ r.node \in DOMAIN r.tree
                  /\ r.tree[r.node].visits = 0
                  /\ r.tree[r.node].parent = n
                  /\ \E i \in DOMAIN nodes[n].children :
                        /\ nodes[n].children[i] = None
                        /\ r.tree[n].children[i] = r.node
                        /\ \A j \in DOMAIN nodes[n].children :
                              j # i => r.tree[n].children[j]
                                          = nodes[n].children[j]
            /\ Full(nodes, n) => (r.node = None /\ r.tree = nodes)

\* the driver has just expanded a slot of a node below the root; on one
\* full node the call would raise, on another it would return None
C14_Witness ==
    /\ pc = "sample"
    /\ new_child = Len(nodes)
    /\ nodes[new_child].visits = 0
    /\ parent_node # 1
    /\ \E n \in DOMAIN nodes :
          /\ Full(nodes, n)
          /\ \E r \in inflate_random_child(nodes, n, numeric, Unit) :
                r.err # ""
    /\ \E n \in DOMAIN nodes :
          /\ Full(nodes, n)
          /\ \E r \in inflate_random_child(nodes, n, numeric, Unit) :
                r.err = "" /\ r.node = None

\* the tree with every win count and exploration constant overwritten
Scrubbed(t) == [k \in DOMAIN t |-> [t[k] EXCEPT !.wins = 0, !.uct_coeff = 14]]

\* C15: most_visited_child returns None iff no slot is materialized;
\* otherwise it returns a materialized child that no other materialized
\* child exceeds in visits, the one in the lowest slot among those with
\* maximal visits, whatever the wins and the exploration constant are.
C15_MostVisitedChild ==
    \A n \in DOMAIN nodes :
        LET m  == most_visited_child(nodes, n)
            ms == MaterializedSlots(nodes, n)
            ch == nodes[n].children
        IN  /\ (m = None) <=> (ms = {})
            /\ (ms # {}) =>
                  \E i \in ms :
                      /\ ch[i] = m
                      /\ \A j \in ms : nodes[ch[j]].visits <= nodes[m].visits
                      /\ \A j \in ms :
                            j < i => nodes[ch[j]].visits < nodes[m].visits
            /\ most_visited_child(Scrubbed(nodes), n) = m

\* the root's child of slot 1 has more visits than the child of slot 0
\* and is returned; another node has no child at all
C15_Witness ==
    /\ Len(nodes) >= 3
    /\ num_chunks = 2
    /\ Full(nodes, 1)
    /\ nodes[nodes[1].children[1]].visits > nodes[nodes[1].children[0]].visits
    /\ nodes[nodes[1].children[0]].visits = 1
    /\ most_visited_child(nodes, 1) = nodes[1].children[1]
    /\ most_visited_child(nodes, nodes[1].children[0]) = None

\* C16: in every reachable state the root is the only node without a
\* parent; a node held in a slot of n has n as its parent; every other
\* node sits in exactly one slot of exactly one node, which was created
\* before it; all nodes carry the exploration constant and the branching
\* factor of the root.
C16_TreeBackReferences ==
    \A n \in DOMAIN nodes :
        /\ is_root(nodes, n) <=> (n = 1)
        /\ nodes[n].uct_coeff = nodes[1].uct_coeff
        /\ nodes[n].num_chunks = nodes[1].num_chunks
        /\ nodes[1].uct_coeff = uct_coeff
        /\ nodes[1].num_chunks = num_chunks
        /\ \A i \in DOMAIN nodes[n].children :
              nodes[n].children[i] # None =>
                  /\ nodes[n].children[i] \in DOMAIN nodes
                  /\ nodes[nodes[n].children[i]].parent = n
        /\ (n # 1) =>
              /\ nodes[n].parent \in DOMAIN nodes
              /\ nodes[n].parent < n
              /\ Cardinality({ pi \in (DOMAIN nodes) \X Slots(num_chunks) :
                                 nodes[pi[1]].children[pi[2]] = n }) = 1

\* inside a backpropagation from a node two levels below the root, with
\* two slots per node
C16_Witness ==
    /\ pc = "propagate"
    /\ num_chunks = 2
    /\ Len(nodes) = 4
    /\ nodes[4].parent # 1
    /\ prop = 1

\* C17: no step of a run lowers the visits or wins of a node, empties or
\* re-targets a materialized slot, changes an interval or removes a node.
C17_NothingUndone ==
    [][ \A n \in DOMAIN nodes :
          /\ n \in DOMAIN nodes'
          /\ nodes'[n].visits >= nodes[n].visits
          /\ nodes'[n].wins >= nodes[n].wins
          /\ nodes'[n].interval = nodes[n].interval
          /\ nodes'[n].parent = nodes[n].parent
          /\ \A i \in DOMAIN nodes[n].children :
                nodes[n].children[i] # None =>
                    nodes'[n].children[i] = nodes[n].children[i] ]_vars

\* a run of three iterations with two slots has returned; the root counted
\* two wins and a loss
C17_Witness ==
    /\ pc = "done"
    /\ num_chunks = 2
    /\ nodes[1].visits = 3
    /\ nodes[1].wins = 2
    /\ \E j \in 1 .. 3 : nodes[1].samples[j][3] = "L"

\* visits a node has when its counters are at rest: one per child created
\* below it, and one for its own sample unless it is the root
RestVisits(t, n) ==
    (IF is_root(t, n) THEN 0 ELSE 1) + Cardinality(MaterializedSlots(t, n))

\* C18 as stated: in every reachable state a node with an empty slot has
\* visits equal to its number of materialized children (root) or to that
\* number plus 1 (other nodes).
C18_CountsInEveryState ==
    \A n \in DOMAIN nodes :
        ~Full(nodes, n) => nodes[n].visits = RestVisits(nodes, n)

\* C18: in every reachable state a node with an empty slot has
\* visits <= num_chunks; between two iterations and during the descent its
\* visits are exactly the number of its materialized children (root) or
\* that number plus 1 (other nodes); at the expansion point
\* inflate_random_child returns a node, so sample() never receives None.
C18_GuardNeverFires ==
    /\ \A n \in DOMAIN nodes :
          ~Full(nodes, n) => nodes[n].visits <= nodes[n].num_chunks
    /\ pc \in {"loop", "descend", "extract", "done"} =>
          \A n \in DOMAIN nodes :
              ~Full(nodes, n) => nodes[n].visits = RestVisits(nodes, n)
    /\ (pc = "descend" /\ cur_node = None) =>
          \A r \in inflate_random_child(nodes, parent_node, numeric, Unit) :
              r.err = "" /\ r.node # None
    /\ pc = "sample" => new_child # None
    /\ err # "AttributeError"

\* the expansion point is a node below the root whose visits equal
\* num_chunks, and it received a child in its last empty slot
C18_Witness ==
    /\ pc = "sample"
    /\ parent_node # 1
    /\ nodes[parent_node].visits = nodes[parent_node].num_chunks
    /\ new_child = Len(nodes)
    /\ nodes[new_child].parent = parent_node
    /\ Full(nodes, parent_node)

\* the records of the iterations that created a node at or below n, in the
\* order of the iterations (iteration d - 1 created node d and its record
\* is the first sample of that node)
RECURSIVE RecordsBelow(_, _, _)
RecordsBelow(t, n, d) ==
    IF d > Len(t) THEN << >>
    ELSE (IF n \in PathToRoot(t, d) THEN << t[d].samples[1] >> ELSE << >>)
         \o RecordsBelow(t, n, d + 1)

CountW(s) == Cardinality({j \in DOMAIN s : s[j][3] = "W"})

\* C19: at the end of every iteration every node has as many records in
\* samples as visits and as many records with outcome W as wins, and the
\* record of an iteration is in the samples of exactly the nodes from the
\* leaf created in that iteration up to the root.
C19_SamplesAgreeWithCounters ==
    (pc \in {"loop", "extract", "done"}) =>
        /\ \A n \in DOMAIN nodes :
              /\ Len(nodes[n].samples) = nodes[n].visits
              /\ CountW(nodes[n].samples) = nodes[n].wins
              /\ nodes[n].samples = RecordsBelow(nodes, n, 2)
        /\ (iter >= 1 /\ pc = "loop") =>
              /\ new_child = Len(nodes)
              /\ \A n \in PathToRoot(nodes, new_child) :
                    /\ nodes[n].samples # << >>
                    /\ nodes[n].samples[Len(nodes[n].samples)] = result

\* the third iteration ended two levels below the root: its record is in
\* three nodes and not in the other root child, and the root holds a W
\* and a non-W record
C19_Witness ==
    /\ pc = "loop"
    /\ iter = 3
    /\ num_chunks = 2
    /\ nodes[new_child].parent # 1
    /\ Len(nodes[nodes[new_child].parent].samples) = 2
    /\ \E c \in Children(nodes, 1) :
          c \notin PathToRoot(nodes, new_child) /\ Len(nodes[c].samples) = 1
    /\ CountW(nodes[1].samples) = 2

\* C20: for every node and every slot i, has_child_for_interval(i) is true
\* if and only if children[i] is materialized, that is if and only if
\* make_child_for_interval(i) returns an existing node and creates none.
C20_HasChildReportsMaterialized ==
    \A n \in DOMAIN nodes :
        \A i \in DOMAIN nodes[n].children :
            /\ has_child_for_interval(nodes, n, i) <=>
                  (nodes[n].children[i] # None)
            /\ has_child_for_interval(nodes, n, i) <=>
                  LET r == make_child_for_interval(nodes, n, i, numeric, Unit)
                  IN  r.tree = nodes /\ r.node = nodes[n].children[i]

====
